---- MODULE Spec2Model ----
(***************************************************************************)
(* A model of prpolish: the heuristic title and description generators,   *)
(* the resource labeler, the service-backed generators and the commands   *)
(* that sequence them.  Texts are TLA+ strings; the Python string         *)
(* operations the code uses (strip, split, lower, slicing, substring and  *)
(* regular-expression search) are computed character by character.        *)
(***************************************************************************)
EXTENDS Integers, Sequences, FiniteSets, TLC

VARIABLES
    op,               \* the entry point that was invoked
    commit_messages,  \* git_utils.get_commit_messages: oldest first
    changed_files,    \* git_utils.get_changed_files
    branch_name,      \* git_utils.get_branch_name
    template,         \* the template argument; "" stands for None (both falsy)
    api_key,          \* TRUE iff OPENAI_API_KEY is set and non-empty
    pc,               \* position in the running function or command
    title,            \* the title returned by title generation
    desc,             \* the description returned by description generation
    status,           \* "running", "returned" or "raised"
    resource_lines,   \* the lines handed to label_related_resource_links
    labeled,          \* its first result
    other,            \* its second result
    diff,             \* local of the running generator: the diff or its placeholder
    diff_summary,     \* local: what summarize_diff_via_api returned
    cost1,            \* local: the cost summarize_diff_via_api returned
    title_cost,       \* the cost returned with the title
    desc_cost,        \* the cost returned with the description
    trace,            \* the calls made so far: diff retrievals, requests, heuristics, returns
    echoed,           \* what the command printed with click.echo
    error,            \* the exception that left the entry point, "" if none
    generated,        \* the description as the generator returned it to the command
    warnings,         \* the list run_vibe_checks returned
    add_resources     \* the answer to "Would you like to add related resources"

\* the locals of generate_pr_title_llm / generate_pr_description_llm
locals == <<diff, diff_summary, cost1>>

\* what only the service-backed generators and the commands write
pipeline == <<diff, diff_summary, cost1, title_cost, desc_cost, trace, echoed, error,
              generated, warnings, add_resources>>

vars == <<op, commit_messages, changed_files, branch_name, template, api_key,
          pc, title, desc, status, resource_lines, labeled, other,
          diff, diff_summary, cost1, title_cost, desc_cost, trace, echoed, error,
          generated, warnings, add_resources>>

----------------------------------------------------------------------------
(* Python string primitives *)

Min(a, b) == IF a <= b THEN a ELSE b

SetMin(S) == CHOOSE x \in S : \A y \in S : x <= y

SetMax(S) == CHOOSE x \in S : \A y \in S : y <= x

\* s[i-1] as a one-character string, "" when out of range
Char(s, i) == IF i >= 1 /\ i <= Len(s) THEN SubSeq(s, i, i) ELSE ""

\* s[i-1:]
Drop(s, i) == IF i > Len(s) THEN "" ELSE SubSeq(s, i, Len(s))

\* s[:n]
Truncate(s, n) == SubSeq(s, 1, Min(n, Len(s)))

\* s.startswith(pat, i-1)
StartsWithAt(s, pat, i) ==
    /\ i >= 1
    /\ i + Len(pat) - 1 <= Len(s)
    /\ SubSeq(s, i, i + Len(pat) - 1) = pat

StartsWith(s, pat) == StartsWithAt(s, pat, 1)

EndsWith(s, pat) == StartsWithAt(s, pat, Len(s) - Len(pat) + 1)

\* pat in s
Contains(s, pat) == \E i \in 1..(Len(s) - Len(pat) + 1) : StartsWithAt(s, pat, i)

\* s.find(pat, from-1) + 1: the least index >= from where pat occurs, 0 if none
Find(s, pat, from) ==
    LET hits == {i \in from..(Len(s) - Len(pat) + 1) : StartsWithAt(s, pat, i)}
    IN  IF hits = {} THEN 0 ELSE SetMin(hits)

IsSpace(c) == c \in {" ", "\n", "\t"}

IsDigit(c) == c \in {"0", "1", "2", "3", "4", "5", "6", "7", "8", "9"}

UpperCase == <<"A", "B", "C", "D", "E", "F", "G", "H", "I", "J", "K", "L", "M",
               "N", "O", "P", "Q", "R", "S", "T", "U", "V", "W", "X", "Y", "Z">>

LowerCase == <<"a", "b", "c", "d", "e", "f", "g", "h", "i", "j", "k", "l", "m",
               "n", "o", "p", "q", "r", "s", "t", "u", "v", "w", "x", "y", "z">>

IsUpper(c) == c \in {UpperCase[k] : k \in 1..Len(UpperCase)}

LowerChar(c) ==
    IF IsUpper(c) THEN LowerCase[CHOOSE k \in 1..Len(UpperCase) : UpperCase[k] = c] ELSE c

RECURSIVE lower(_)
\* str.lower(), character by character (the text is halved to keep the nesting shallow)
lower(s) ==
    IF Len(s) <= 1 THEN LowerChar(s)
    ELSE lower(SubSeq(s, 1, Len(s) \div 2)) \o lower(Drop(s, Len(s) \div 2 + 1))

\* str.strip(): leading and trailing whitespace removed
strip(s) ==
    LET keep == {i \in 1..Len(s) : ~IsSpace(Char(s, i))}
    IN  IF keep = {} THEN "" ELSE SubSeq(s, SetMin(keep), SetMax(keep))

\* s.split("\n")[0]
FirstLine(s) ==
    LET i == Find(s, "\n", 1) IN IF i = 0 THEN s ELSE SubSeq(s, 1, i - 1)

RECURSIVE Join(_, _)
\* sep.join(items)
Join(items, sep) ==
    IF items = <<>> THEN ""
    ELSE IF Len(items) = 1 THEN items[1]
    ELSE items[1] \o sep \o Join(Tail(items), sep)

RECURSIVE DigitsEnd(_, _)
\* the last index j >= i such that s[i..j] are all digits (a greedy \d*); i-1 if none
DigitsEnd(s, i) == IF IsDigit(Char(s, i)) THEN DigitsEnd(s, i + 1) ELSE i - 1

RECURSIVE UpperEnd(_, _)
\* the last index j >= i such that s[i..j] are all of A-Z (a greedy [A-Z]*); i-1 if none
UpperEnd(s, i) == IF IsUpper(Char(s, i)) THEN UpperEnd(s, i + 1) ELSE i - 1

\* where a match of  #\d+|[A-Z]{2,}-\d+  starting at index i ends; 0 if none starts there
RefMatchEnd(s, i) ==
    LET d == DigitsEnd(s, i + 1)
        u == UpperEnd(s, i)
        e == DigitsEnd(s, u + 2)
    IN  IF Char(s, i) = "#" /\ d >= i + 1 THEN d
        ELSE IF u - i + 1 >= 2 /\ Char(s, u + 1) = "-" /\ e >= u + 2 THEN e
        ELSE 0

RECURSIVE FindRefsFrom(_, _)
\* the matches from index i on, leftmost first and not overlapping
FindRefsFrom(s, i) ==
    LET starts == {j \in i..Len(s) : RefMatchEnd(s, j) >= j}
        b == SetMin(starts)
    IN  IF starts = {} THEN <<>>
        ELSE <<SubSeq(s, b, RefMatchEnd(s, b))>> \o FindRefsFrom(s, RefMatchEnd(s, b) + 1)

\* re.findall(r"#\d+|[A-Z]{2,}-\d+", s)
FindRefs(s) == FindRefsFrom(s, 1)

\* f" ({' '.join(refs)})" if refs else ""
RefStr(s) ==
    LET refs == FindRefs(s)
    IN  IF refs = <<>> THEN "" ELSE " (" \o Join(refs, " ") \o ")"

----------------------------------------------------------------------------
(* Results of a call: a value, or an exception that leaves the function *)

Ok(v) == [kind |-> "ok", exc |-> "", val |-> v]

\* an exception of type e whose str() is msg
Raise(e, msg) == [kind |-> "raise", exc |-> e, val |-> msg]

----------------------------------------------------------------------------
(* str.format with the keyword arguments commit_messages, changed_files,   *)
(* branch_name: "{name}" is replaced, "{{" and "}}" are literal braces, an *)
(* unknown field name is a KeyError, an unmatched brace a ValueError.      *)

FieldValue(name, cm, cf, bn) ==
    IF name = "commit_messages" THEN Ok(cm)
    ELSE IF name = "changed_files" THEN Ok(cf)
    ELSE IF name = "branch_name" THEN Ok(bn)
    ELSE Raise("KeyError", "'" \o name \o "'")

SingleBrace == Raise("ValueError", "Single brace encountered in format string")

\* r with the text before put in front of its value
Prepend(before, r) == IF r.kind = "ok" THEN Ok(before \o r.val) ELSE r

RECURSIVE FormatFrom(_, _, _, _, _)
\* the format of t[i-1:]: the text up to the next brace is copied, then the brace
\* is a doubled brace, a field, or an error
FormatFrom(t, i, cm, cf, bn) ==
    LET braces == {j \in i..Len(t) : Char(t, j) \in {"{", "}"}}
        b == SetMin(braces)
        before == SubSeq(t, i, b - 1)
        close == Find(t, "}", b + 1)
        field == FieldValue(SubSeq(t, b + 1, close - 1), cm, cf, bn)
    IN  IF braces = {} THEN Ok(Drop(t, i))
        ELSE IF Char(t, b + 1) = Char(t, b)
             THEN Prepend(before \o Char(t, b), FormatFrom(t, b + 2, cm, cf, bn))
        ELSE IF Char(t, b) = "}" \/ close = 0 THEN SingleBrace
        ELSE IF field.kind = "raise" THEN field
        ELSE Prepend(before \o field.val, FormatFrom(t, close + 1, cm, cf, bn))

\* template.format(commit_messages=cm, changed_files=cf, branch_name=bn)
Format(t, cm, cf, bn) == FormatFrom(t, 1, cm, cf, bn)

----------------------------------------------------------------------------
(* generate_pr_title *)

\* the longest title the synthesized paths return: the [:80] slices
MaxTitleLen == 80

\* the shortest message is_good_commit accepts
MinCommitLen == 8

bad_patterns ==
    <<"wip", "temp", "pls work", "final", "test", "update code", "bug fix",
      "fix bug", "pr for">>

\* no re.search(pat, msg, re.IGNORECASE) finds a bad pattern: the patterns are
\* lower-case literals, so the search is a substring test on the lower-case message
is_good_commit(msg) ==
    LET low == lower(msg)
    IN  /\ msg # ""
        /\ Len(msg) >= MinCommitLen
        /\ \A k \in 1..Len(bad_patterns) : ~Contains(low, bad_patterns[k])

ConventionalTypes ==
    <<"feat", "fix", "docs", "chore", "refactor", "test", "style", "perf", "ci",
      "build", "revert", "merge", "release">>

\* the match of  (\([^)]+\))?:   right after a type ending at index r-1
ScopeAndColonAt(msg, r) ==
    \/ StartsWithAt(msg, ": ", r)
    \/ /\ Char(msg, r) = "("
       /\ \E j \in (r + 2)..Len(msg) :
            /\ Char(msg, j) = ")"
            /\ \A k \in (r + 1)..(j - 1) : Char(msg, k) # ")"
            /\ StartsWithAt(msg, ": ", j + 1)

\* re.match(r"^(feat|fix|...|release)(\([^)]+\))?: ", msg)
MatchesConventional(msg) ==
    \E k \in 1..Len(ConventionalTypes) :
        /\ StartsWith(msg, ConventionalTypes[k])
        /\ ScopeAndColonAt(msg, Len(ConventionalTypes[k]) + 1)

\* the if/elif chain on the lower-case message; "" when no branch assigns prefix
KeywordPrefix(msg) ==
    LET low == lower(msg)
    IN  IF Contains(low, "fix") THEN "fix: "
        ELSE IF Contains(low, "add") \/ Contains(low, "implement")
                \/ Contains(low, "feature") THEN "feat: "
        ELSE IF Contains(low, "doc") THEN "docs: "
        ELSE IF Contains(low, "refactor") THEN "refactor: "
        ELSE IF Contains(low, "test") THEN "test: "
        ELSE ""

\* TitleFromCommit without the conventional-commit test: every message gets a prefix
TitleFromCommitAlwaysPrefixed(msg) ==
    LET prefix == KeywordPrefix(msg)
    IN  IF prefix = "" THEN Raise("UnboundLocalError", "local variable prefix referenced before assignment")
        ELSE Ok(Truncate(prefix \o strip(msg) \o RefStr(msg), MaxTitleLen))

\* the body of the loop for a commit that is_good_commit accepts
TitleFromCommit(msg) ==
    LET prefix == KeywordPrefix(msg)
    IN  IF MatchesConventional(msg) THEN Ok(strip(FirstLine(msg)))
        ELSE IF prefix = "" THEN Raise("UnboundLocalError", "local variable prefix referenced before assignment")
        ELSE Ok(Truncate(prefix \o strip(msg) \o RefStr(msg), MaxTitleLen))

BranchPrefix(branch) ==
    IF StartsWith(branch, "feat") THEN "feat: "
    ELSE IF StartsWith(branch, "fix") THEN "fix: "
    ELSE IF StartsWith(branch, "docs") THEN "docs: "
    ELSE IF StartsWith(branch, "refactor") THEN "refactor: "
    ELSE "chore: "

RECURSIVE Replace(_, _, _)
\* s.replace(old, new) for a one-character old
Replace(s, old, new) ==
    LET at == Find(s, old, 1)
    IN  IF at = 0 THEN s
        ELSE SubSeq(s, 1, at - 1) \o new \o Replace(Drop(s, at + 1), old, new)

\* the fallback with the references put before the file hint
TitleFromBranchRefsFirst(files, branch) ==
    IF branch # "" THEN
        LET file_hint == IF files # <<>> THEN " [" \o files[1] \o "]" ELSE ""
        IN  Truncate(BranchPrefix(branch) \o Replace(branch, "-", " ") \o RefStr(branch)
                     \o file_hint, MaxTitleLen)
    ELSE "chore: update code"

\* the fallback after the loop
TitleFromBranch(files, branch) ==
    IF branch # "" THEN
        LET file_hint == IF files # <<>> THEN " [" \o files[1] \o "]" ELSE ""
        IN  Truncate(BranchPrefix(branch) \o Replace(branch, "-", " ") \o file_hint
                     \o RefStr(branch), MaxTitleLen)
    ELSE "chore: update code"

RECURSIVE ScanCommitsNewestFirst(_, _, _)
\* ScanCommits reading the list from its end: the last usable message decides
ScanCommitsNewestFirst(commits, files, branch) ==
    IF commits = <<>> THEN Ok(TitleFromBranch(files, branch))
    ELSE IF is_good_commit(commits[Len(commits)])
         THEN TitleFromCommit(commits[Len(commits)])
    ELSE ScanCommitsNewestFirst(SubSeq(commits, 1, Len(commits) - 1), files, branch)

RECURSIVE ScanCommits(_, _, _)
\* for msg in commit_messages: the first message is_good_commit accepts decides
ScanCommits(commits, files, branch) ==
    IF commits = <<>> THEN Ok(TitleFromBranch(files, branch))
    ELSE IF is_good_commit(Head(commits)) THEN TitleFromCommit(Head(commits))
    ELSE ScanCommits(Tail(commits), files, branch)

generate_pr_title(commits, files, branch, tmpl) ==
    IF tmpl # "" THEN Format(tmpl, Join(commits, "; "), Join(files, ", "), branch)
    ELSE ScanCommits(commits, files, branch)

----------------------------------------------------------------------------
(* generate_pr_description *)

NoCommitsSentence ==
    "No detailed commit messages found. Consider explaining why this fix matters."

RECURSIVE Bullets(_)
\* '\n'.join(f"- {msg}" for msg in items)
Bullets(items) ==
    IF items = <<>> THEN ""
    ELSE IF Len(items) = 1 THEN "- " \o items[1]
    ELSE "- " \o items[1] \o "\n" \o Bullets(Tail(items))

\* 'test' in f or f.endswith('.test.js') or '__tests__' in f
IsTestFile(f) == Contains(f, "test") \/ EndsWith(f, ".test.js") \/ Contains(f, "__tests__")

\* how many file names the Changes section lists, and how many test files Testing names
MaxFilesListed == 3

MaxTestFilesListed == 2

FilesSummary(files) ==
    Join(SubSeq(files, 1, Min(MaxFilesListed, Len(files))), ", ")
        \o (IF Len(files) > MaxFilesListed
            THEN ", and " \o ToString(Len(files) - MaxFilesListed) \o " more files"
            ELSE "")

TestingLine(files) ==
    LET test_files == SelectSeq(files, IsTestFile)
    IN  IF test_files # <<>>
        THEN "Test files updated: "
                 \o Join(SubSeq(test_files, 1, Min(MaxTestFilesListed, Len(test_files))), ", ")
                 \o (IF Len(test_files) > MaxTestFilesListed THEN "..." ELSE "")
                 \o "."
        ELSE "No test files detected. Please describe how this was tested."

\* the default text with every changed file listed under Changes
DefaultDescriptionAllFiles(commits, files, branch) ==
    "# Summary\n" \o commits[1]
        \o "\n\n# Related Resources\n(Add links to issues, docs, or tickets here if relevant.)"
        \o "\n\n# Changes\n" \o Bullets(commits)
        \o "\n\n**Main files changed:** " \o Join(files, ", ")
        \o "\n\n# Testing\n" \o TestingLine(files)
        \o "\n\n# Out of Scope\n(Note any related work not addressed in this PR.)"

\* the default five-section text
DefaultDescription(commits, files, branch) ==
    "# Summary\n" \o commits[1]
        \o "\n\n# Related Resources\n(Add links to issues, docs, or tickets here if relevant.)"
        \o "\n\n# Changes\n" \o Bullets(commits)
        \o "\n\n**Main files changed:** " \o FilesSummary(files)
        \o "\n\n# Testing\n" \o TestingLine(files)
        \o "\n\n# Out of Scope\n(Note any related work not addressed in this PR.)"

\* generate_pr_description with the template tested before the empty commit list
generate_pr_description_TemplateFirst(commits, files, branch, tmpl) ==
    IF tmpl # "" THEN Format(tmpl, Join(commits, "\n"), Join(files, "\n"), branch)
    ELSE IF commits = <<>> THEN Ok(NoCommitsSentence)
    ELSE Ok(DefaultDescription(commits, files, branch))

generate_pr_description(commits, files, branch, tmpl) ==
    IF commits = <<>> THEN Ok(NoCommitsSentence)
    ELSE IF tmpl # "" THEN Format(tmpl, Join(commits, "\n"), Join(files, "\n"), branch)
    ELSE Ok(DefaultDescription(commits, files, branch))

----------------------------------------------------------------------------
(* label_related_resource_links *)

\* The patterns are raw strings with doubled backslashes, r"atlassian\\.net": as a
\* regular expression that is the text, one backslash, any character but a
\* newline, and the text that follows.  A pattern is a sequence of parts, each a
\* literal text or Dot (any character but a newline).
Dot == [any |-> TRUE]

Lit(t) == [any |-> FALSE, text |-> t]

Backslash == "\\"

RECURSIVE MatchPartsAt(_, _, _)
\* where a match of the parts starting at index i of s ends, or -1
MatchPartsAt(s, parts, i) ==
    IF parts = <<>> THEN i - 1
    ELSE LET p == Head(parts)
         IN  IF p.any THEN
                 IF Char(s, i) \notin {"", "\n"} THEN MatchPartsAt(s, Tail(parts), i + 1)
                 ELSE -1
             ELSE IF StartsWithAt(s, p.text, i)
                  THEN MatchPartsAt(s, Tail(parts), i + Len(p.text))
             ELSE -1

\* re.search of a pattern made of parts
SearchParts(s, parts) == \E i \in 1..Len(s) : MatchPartsAt(s, parts, i) >= i

\* re.search(r"github\\.com/.+?/issues/", s): the parts, then one or more
\* characters of the same line, then "/issues/"
SearchGithubIssue(s) ==
    \E i \in 1..Len(s) :
        LET e == MatchPartsAt(s, <<Lit("github" \o Backslash), Dot, Lit("com/")>>, i)
        IN  /\ e >= i
            /\ \E j \in (e + 2)..Len(s) :
                 /\ StartsWithAt(s, "/issues/", j)
                 /\ ~Contains(SubSeq(s, e + 1, j - 1), "\n")

\* the heuristics list, in order: does pattern k find a match, and its label
HeuristicMatches(k, line) ==
    CASE k = 1 -> \/ SearchParts(line, <<Lit("jira" \o Backslash), Dot, Lit("com")>>)
                  \/ SearchParts(line, <<Lit("atlassian" \o Backslash), Dot, Lit("net")>>)
      [] k = 2 -> \/ SearchParts(line, <<Lit("confluence" \o Backslash), Dot, Lit("com")>>)
                  \/ SearchParts(line, <<Lit("confluence" \o Backslash), Dot>>)
      [] k = 3 -> SearchParts(line, <<Lit("drive" \o Backslash), Dot, Lit("google" \o Backslash),
                                      Dot, Lit("com")>>)
      [] k = 4 -> SearchGithubIssue(line)
      [] k = 5 -> SearchParts(line, <<Lit("linear" \o Backslash), Dot, Lit("app")>>)
      [] k = 6 -> SearchParts(line, <<Lit("docs" \o Backslash), Dot, Lit("google" \o Backslash),
                                      Dot, Lit("com")>>)

HeuristicLabels ==
    <<"Jira Ticket", "Documentation", "Documentation", "GitHub Issue", "Linear Ticket",
      "Documentation">>

\* heuristic_label(line): the label of the first pattern that matches, "" for None
heuristic_label(line) ==
    LET hits == {k \in 1..Len(HeuristicLabels) : HeuristicMatches(k, line)}
    IN  IF hits = {} THEN "" ELSE HeuristicLabels[SetMin(hits)]

\* the labeler without its else branch: a line no pattern matches is left out
label_related_resource_links_MatchedOnly(lines) ==
    LET kept[i \in 0..Len(lines)] ==
            IF i = 0 THEN <<>>
            ELSE LET line == strip(lines[i])
                     label == heuristic_label(line)
                 IN  IF label # "" THEN kept[i - 1] \o <<label \o ": " \o line>>
                     ELSE kept[i - 1]
    IN  <<kept[Len(lines)], (<<>>)>>

RECURSIVE label_related_resource_links(_)
\* <<labeled, other>>
label_related_resource_links(lines) ==
    IF lines = <<>> THEN <<(<<>>), (<<>>)>>
    ELSE LET line == strip(Head(lines))
             label == heuristic_label(line)
             rest == label_related_resource_links(Tail(lines))
         IN  IF label # "" THEN <<(<<label \o ": " \o line>>) \o rest[1], rest[2]>>
             ELSE <<rest[1], (<<line>>) \o rest[2]>>

----------------------------------------------------------------------------
(* Inputs: what the repository and the caller can supply *)

\* the longest commit list, changed-file list and resource-line list drawn
MaxCommits == 2

\* one conventional message per type of ConventionalTypes
ConventionalPool ==
    { "feat: add retry logic to uploader",
      "fix: resolve race condition in cache",
      "docs: describe the cache layout",
      "chore: bump the lockfile",
      "refactor(core): split the parser",
      "test: cover the uploader",
      "style: reformat the module",
      "perf: speed up the lookup",
      "ci: pin the runner image",
      "build: drop the old target",
      "revert: undo the cache change",
      "merge: bring in the hotfix",
      "release: cut the 2.0 line" }

\* a conventional first line of 97 characters, and one with trailing blanks and a body
LongConventional ==
    "fix: resolve the race condition between the uploader and the cache when both retry at once, again"

PaddedConventional == "docs: explain the retry policy  \n\nSee the design notes."

\* a message with a keyword and a branch name, each longer than a title may be
LongPlain ==
    "Implement the retry policy of the uploader and the cache for every request that times out (#7)"

LongBranch ==
    "refactor-split-the-uploader-retry-policy-from-the-cache-eviction-policy-PROJ-19"

\* messages without a conventional prefix: unusable ones, one no keyword matches,
\* one with issue references, one that is longer than a title may be
PlainPool ==
    { "wip",
      "temp fix",
      "Bump version to 2.0",
      "Add login page for PROJ-12 #45",
      LongPlain }

\* messages with a body: a subject shorter than MinCommitLen, and a body that
\* holds a bad pattern the subject does not
ShortSubject == "Bump it\n\nAdd the new release notes."

BodyMentionsTest == "Add login page\n\nCovered by a unit test."

\* messages whose only keyword is the one of a single rule of the if/elif chain
KeywordPool ==
    { "Correct the fixture loader",
      "Document the cache layout",
      "Refactor the parser module",
      "Cover the uploader with tests" }

TitleCommitPool ==
    PlainPool \cup {"feat: add retry logic to uploader", "test: cover the uploader",
                    LongConventional, PaddedConventional}

SeqsUpTo(S, n) == UNION {[1..k -> S] : k \in 0..n}

\* every list over TitleCommitPool, and each conventional type alone and after
\* an unusable commit
TitleCommitLists ==
    SeqsUpTo(TitleCommitPool, MaxCommits)
        \cup {<<c>> : c \in ConventionalPool}
        \cup {<<"wip", c>> : c \in ConventionalPool}
        \cup {<<"wip", "temp fix", "feat: add retry logic to uploader">>}
        \cup {<<c>> : c \in KeywordPool \cup {ShortSubject, BodyMentionsTest}}

FilePool == {<<>>, <<"src/uploader.py">>, <<"src/cache.py", "tests/test_cache.py", "README.md", "setup.py">>}

BranchPool == {"", "feat-retry-PROJ-7", "hotfix", LongBranch}

\* "" is no template
TitleTemplatePool == {"", "[{branch_name}] {commit_messages}"}

\* nothing of the service-backed generators has run
PipelineIdle ==
    /\ diff = ""
    /\ diff_summary = ""
    /\ cost1 = 0
    /\ title_cost = 0
    /\ desc_cost = 0
    /\ trace = <<>>
    /\ echoed = <<>>
    /\ error = ""
    /\ generated = ""
    /\ warnings = <<>>
    /\ add_resources = FALSE

----------------------------------------------------------------------------
(* The heuristic title generator called on its own *)

InitTitle ==
    /\ op = "generate_pr_title"
    /\ commit_messages \in TitleCommitLists
    /\ changed_files \in FilePool
    /\ branch_name \in BranchPool
    /\ template \in TitleTemplatePool
    /\ api_key = FALSE
    /\ pc = "start"
    /\ title = ""
    /\ desc = ""
    /\ status = "running"
    /\ resource_lines = <<>>
    /\ labeled = <<>>
    /\ other = <<>>
    /\ PipelineIdle

\* title = generate_pr_title(commit_messages, changed_files, branch_name, template)
CallTitle ==
    /\ op = "generate_pr_title"
    /\ pc = "start"
    /\ LET r == generate_pr_title(commit_messages, changed_files, branch_name, template)
       IN  /\ title' = (IF r.kind = "ok" THEN r.val ELSE "")
           /\ status' = (IF r.kind = "ok" THEN "returned" ELSE "raised")
    /\ pc' = "done"
    /\ UNCHANGED <<op, commit_messages, changed_files, branch_name, template, api_key, desc,
                   resource_lines, labeled, other, pipeline>>

NextTitle == CallTitle

SpecTitle == InitTitle /\ [][NextTitle]_vars

----------------------------------------------------------------------------
(* The heuristic description generator called on its own *)

DescCommitPool ==
    {"wip", "feat: add retry logic to uploader", "Fix the cache race\n\nSee PROJ-12."}

DescFilePool ==
    { <<>>,
      <<"src/uploader.py">>,
      <<"src/cache.py", "tests/test_cache.py", "README.md", "setup.py">>,
      <<"tests/test_cache.py", "web/cache.test.js", "web/__tests__/retry.js",
        "src/cache.py", "src/uploader.py">> }

\* "" is no template; the last one names a field format() does not know
DescTemplatePool == {"", "## What\n{commit_messages}\n## Files\n{changed_files}", "{title}"}

InitDesc ==
    /\ op = "generate_pr_description"
    /\ commit_messages \in SeqsUpTo(DescCommitPool, MaxCommits)
    /\ changed_files \in DescFilePool
    /\ branch_name \in BranchPool
    /\ template \in DescTemplatePool
    /\ api_key = FALSE
    /\ pc = "start"
    /\ title = ""
    /\ desc = ""
    /\ status = "running"
    /\ resource_lines = <<>>
    /\ labeled = <<>>
    /\ other = <<>>
    /\ PipelineIdle

\* desc = generate_pr_description(commit_messages, changed_files, branch_name, template)
CallDesc ==
    /\ op = "generate_pr_description"
    /\ pc = "start"
    /\ LET r == generate_pr_description(commit_messages, changed_files, branch_name, template)
       IN  /\ desc' = (IF r.kind = "ok" THEN r.val ELSE "")
           /\ status' = (IF r.kind = "ok" THEN "returned" ELSE "raised")
    /\ pc' = "done"
    /\ UNCHANGED <<op, commit_messages, changed_files, branch_name, template, api_key, title,
                   resource_lines, labeled, other, pipeline>>

NextDesc == CallDesc

SpecDesc == InitDesc /\ [][NextDesc]_vars

----------------------------------------------------------------------------
(* The resource labeler called on its own *)

\* the longest list of resource lines drawn
MaxLines == 2

\* URLs of each kind the labeler names, a line with no known host, and two lines
\* that hold the backslash the patterns ask for
LinePool ==
    { "https://jira.mycompany.atlassian.net/TICKET-1",
      "https://example.com/notes",
      "https://confluence.example.com/x/design",
      "https://drive.google.com/file/d/1",
      "https://github.com/acme/app/issues/12",
      "https://linear.app/acme/issue/APP-3",
      "https://docs.google.com/document/d/2",
      "  see atlassian\\.net/TICKET-2 ",
      "linear\\.app/APP-4" }

InitLabel ==
    /\ op = "label_related_resource_links"
    /\ resource_lines \in SeqsUpTo(LinePool, MaxLines)
    /\ commit_messages = <<>>
    /\ changed_files = <<>>
    /\ branch_name = ""
    /\ template = ""
    /\ api_key \in BOOLEAN
    /\ pc = "start"
    /\ title = ""
    /\ desc = ""
    /\ status = "running"
    /\ labeled = <<>>
    /\ other = <<>>
    /\ PipelineIdle

\* labeled, other = label_related_resource_links(resource_lines)
CallLabel ==
    /\ op = "label_related_resource_links"
    /\ pc = "start"
    /\ LET r == label_related_resource_links(resource_lines)
       IN  labeled' = r[1] /\ other' = r[2]
    /\ status' = "returned"
    /\ pc' = "done"
    /\ UNCHANGED <<op, commit_messages, changed_files, branch_name, template, api_key, title,
                   desc, resource_lines, pipeline>>

NextLabel == CallLabel

SpecLabel == InitLabel /\ [][NextLabel]_vars

----------------------------------------------------------------------------
(* The generation service *)

\* the usage a response reports when it reports one (a missing usage counts as 0, 0)
MaxPromptTokens == 400

MaxCompletionTokens == 120

\* cost = prompt_tokens/1000 * 0.0015 + completion_tokens/1000 * 0.002, in units
\* of 10^-7 USD: 15 per prompt token, 20 per completion token
InputRate == 15

OutputRate == 20

CallCost(usage) == InputRate * usage[1] + OutputRate * usage[2]

UsagePool == {<<0, 0>>, <<MaxPromptTokens, MaxCompletionTokens>>}

\* What requests.post and the reading of the response can give: "exception" (the
\* post or the JSON decoding raised: transport error, timeout), "error" (not
\* response.ok, or no "choices"), "ok" (choices[0].message.content and usage).
Response(kind, text, usage) == [kind |-> kind, text |-> text, usage |-> usage]

FailedResponses ==
    { Response("exception", "Read timed out. (read timeout=8)", <<0, 0>>),
      Response("error", "{\"error\": {\"message\": \"Rate limit reached\"}}", <<0, 0>>) }

SummaryResponses ==
    FailedResponses
        \cup {Response("ok", "  Adds a retry policy to the uploader.\n",
                       <<MaxPromptTokens, MaxCompletionTokens>>)}

\* a reply of two lines whose first line is longer than a title may be
LongTitleReply ==
    "  feat: add a retry policy with exponential backoff to the uploader and to the cache client\nIt retries."

TitleResponses ==
    FailedResponses
        \cup {Response("ok", "feat: add retry policy to the uploader", u) : u \in UsagePool}
        \cup {Response("ok", LongTitleReply, <<MaxPromptTokens, MaxCompletionTokens>>)}

required_sections ==
    <<"# Summary", "# Related Resources", "# Changes", "# Testing", "# Out of Scope">>

ReplySections ==
    <<"# Summary\nAdds a retry policy.", "# Related Resources\nPROJ-7",
      "# Changes\n- retry loop in the uploader", "# Testing\nUnit tests added.",
      "# Out of Scope\nThe cache client.">>

\* the three backquotes of a code fence: a TLA+ string cannot hold a backquote,
\* so the character ~ stands for it in every text of the model
Fence == "~~~"

Without(items, k) == SubSeq(items, 1, k - 1) \o SubSeq(items, k + 1, Len(items))

Reversed(items) == [i \in 1..Len(items) |-> items[Len(items) + 1 - i]]

\* replies with the five headings (padded with whitespace, with Related Resources
\* as the last section, in another order with one heading twice, inside a code
\* fence) and replies that lack one heading each
CompleteReplies ==
    { "\n" \o Join(ReplySections, "\n\n") \o "\n  ",
      Join(Without(ReplySections, 2) \o <<ReplySections[2]>>, "\n\n"),
      Join(Reversed(ReplySections) \o <<ReplySections[1]>>, "\n\n"),
      Fence \o "markdown\n" \o Join(ReplySections, "\n\n") \o "\n" \o Fence }

IncompleteReplies ==
    {Join(Without(ReplySections, k), "\n\n") : k \in 1..Len(ReplySections)}

DescriptionResponses ==
    FailedResponses
        \cup {Response("ok", t, <<MaxPromptTokens, MaxCompletionTokens>>) :
                 t \in CompleteReplies \cup IncompleteReplies}
        \cup {Response("ok", Join(Without(ReplySections, 4), "\n\n"), <<0, 0>>)}

\* all(section in content for section in required_sections)
AllSectionsPresent(content) ==
    \A k \in 1..Len(required_sections) : Contains(content, required_sections[k])

\* ("[OpenAI API error: ...]", 0.0) of a failed request: the exception text or response.text
ApiErrorText(text) == "[OpenAI API error: " \o text \o "]"

\* what summarize_diff_via_api returns for a response: <<summary, cost>>
SummaryResult(resp) ==
    IF resp.kind = "ok" THEN <<strip(resp.text), CallCost(resp.usage)>>
    ELSE <<ApiErrorText(resp.text), 0>>

\* the title a successful reply gives without the [:80] slice
TitleFromReplyUncut(text) == FirstLine(strip(text))

\* content.split("\n")[0][:80] of the stripped reply
TitleFromReply(text) == Truncate(FirstLine(strip(text)), MaxTitleLen)

\* one call recorded in the trace
Event(call, prompt, outcome, usage, reply) ==
    [call |-> call, prompt |-> prompt, outcome |-> outcome, usage |-> usage, reply |-> reply]

DiffText == "diff --git a/src/uploader.py b/src/uploader.py\n+    retry(upload)"

DiffPlaceholder == "[Could not retrieve diff]"

NoKeySummary == "[No API key set, cannot summarize diff]"

NoChangesDescription ==
    "No changes detected on this branch. Make sure all changes are added and committed."

NoChangesMessage == "No changes detected on this branch."

MainBranchWarning ==
    "[WARNING] You are on the main/master branch. It is recommended to create PRs from a feature branch."

----------------------------------------------------------------------------
(* run_vibe_checks *)

RECURSIVE SplitLines(_)
\* s.split("\n")
SplitLines(s) ==
    LET i == Find(s, "\n", 1)
    IN  IF i = 0 THEN <<s>> ELSE <<SubSeq(s, 1, i - 1)>> \o SplitLines(Drop(s, i + 1))

\* line.lstrip('-* ')
LStripBullet(line) ==
    LET keep == {i \in 1..Len(line) : Char(line, i) \notin {"-", "*", " "}}
    IN  IF keep = {} THEN "" ELSE Drop(line, SetMin(keep))

IsBullet(line) == StartsWith(strip(line), "-") \/ StartsWith(strip(line), "*")

\* [line.lstrip('-* ').strip() for line in content.split('\n')
\*  if line.strip().startswith(('-', '*'))]
ParseWarnings(content) ==
    LET lines == SplitLines(content)
        kept[i \in 0..Len(lines)] ==
            IF i = 0 THEN <<>>
            ELSE IF IsBullet(lines[i]) THEN kept[i - 1] \o <<strip(LStripBullet(lines[i]))>>
            ELSE kept[i - 1]
    IN  kept[Len(lines)]

VibeResponses ==
    FailedResponses
        \cup {Response("ok", t, <<MaxPromptTokens, MaxCompletionTokens>>) :
                 t \in {"- Commit 'wip' is vague.\n  * No test files present.\n",
                        "Everything looks good.",
                        "Warnings:\n- - Large change without tests  "}}

\* what run_vibe_checks returns for a response
VibeResult(resp) ==
    IF resp.kind = "ok" THEN ParseWarnings(strip(resp.text))
    ELSE <<ApiErrorText(resp.text)>>

----------------------------------------------------------------------------
(* What the commands do to the generated description *)

\* Remove markdown code block wrappers if present (generate and generate_desc)
FenceStripCutAlike(text) ==
    LET s == strip(text)
        cut == strip(Drop(s, Len(Fence \o "markdown") + 1))
    IN  IF StartsWith(s, Fence)
        THEN IF EndsWith(cut, Fence) THEN strip(SubSeq(cut, 1, Len(cut) - 3)) ELSE cut
        ELSE text

FenceStrip(text) ==
    LET s == strip(text)
        Unfenced(opening) ==
            LET rest == strip(Drop(s, Len(opening) + 1))
            IN  IF EndsWith(rest, Fence) THEN strip(SubSeq(rest, 1, Len(rest) - 3)) ELSE rest
    IN  IF StartsWith(s, Fence \o "markdown") THEN Unfenced(Fence \o "markdown")
        ELSE IF StartsWith(s, Fence) THEN Unfenced(Fence)
        ELSE text

RelatedHeading == "# Related Resources\n"

\* Where the lazy body (.*?) of related_section_pattern ends for a body that
\* begins at b: the first newline at or after b that is followed by '#', or is the
\* last character of the text, or is followed by the newline that ends the text
\* ($ also matches before a final newline); 0 when there is none.
RelatedBodyEnd(text, b) ==
    LET ends == {e \in b..Len(text) :
                    /\ Char(text, e) = "\n"
                    /\ \/ Char(text, e + 1) = "#"
                       \/ e = Len(text)
                       \/ e = Len(text) - 1 /\ Char(text, Len(text)) = "\n"}
    IN  IF ends = {} THEN 0 ELSE SetMin(ends)

\* the third group (\n# |\n#|\n$) matched at e
RelatedCloser(text, e) ==
    IF Char(text, e + 1) = "#"
    THEN (IF Char(text, e + 2) = " " THEN "\n# " ELSE "\n#")
    ELSE "\n"

\* related_section_pattern.search(desc) finds a match
RelatedMatch(text) ==
    LET h == Find(text, RelatedHeading, 1)
    IN  h > 0 /\ RelatedBodyEnd(text, h + Len(RelatedHeading)) > 0

RECURSIVE RelatedSub(_, _, _)
\* related_section_pattern.sub(r"\1" + user_related + r"\3", desc) when keep, and
\* related_section_pattern.sub('', desc) otherwise: every match is replaced.  The
\* entered lines are taken to hold no backslash followed by a letter or a digit,
\* which the replacement template would expand or reject.
RelatedSub(text, keep, user_related) ==
    LET h == Find(text, RelatedHeading, 1)
        e == RelatedBodyEnd(text, h + Len(RelatedHeading))
        closer == RelatedCloser(text, e)
    IN  IF h = 0 \/ e = 0 THEN text
        ELSE SubSeq(text, 1, h - 1)
                 \o (IF keep THEN RelatedHeading \o user_related \o closer ELSE "")
                 \o RelatedSub(Drop(text, e + Len(closer)), keep, user_related)

\* the description after the Related Resources prompt of command cmd: add is the
\* answer to the confirmation, lines are the lines entered
RewriteResources(cmd, text, add, lines) ==
    LET found == label_related_resource_links(lines)
        all_lines == found[1] \o found[2]
        user_related == IF all_lines = <<>> THEN "" ELSE Bullets(all_lines) \o "\n"
    IN  IF ~add THEN RelatedSub(text, FALSE, "")
        ELSE IF cmd = "generate" \/ RelatedMatch(text)
             THEN RelatedSub(text, TRUE, user_related)
        ELSE text \o "\n\n# Related Resources\n" \o user_related

\* what a user enters at the prompt, each line stripped and not blank: nothing, or
\* a line that gets no label followed by one that gets a label
EnteredLists ==
    { <<>>,
      <<"https://example.com/notes", "linear\\.app/APP-4">> }

\* a text inside a code fence, as the service may send it
Fenced(lang, text) == Fence \o lang \o "\n" \o text \o "\n" \o Fence

RECURSIVE SubSeqsOf(_)
\* the sub-sequences of a sequence, order kept
SubSeqsOf(items) ==
    IF items = <<>> THEN {<<>>}
    ELSE LET rest == SubSeqsOf(Tail(items))
         IN  rest \cup {<<Head(items)>> \o r : r \in rest}

\* description texts with any of the five sections, bare, padded with whitespace,
\* and with a fenced snippet at their end
UnfencedTexts ==
    LET bodies == {Join(q, "\n\n") : q \in SubSeqsOf(ReplySections)}
    IN  bodies \cup {"\n " \o b \o "\n" : b \in bodies}
               \cup {b \o "\n" \o Fence \o "sh\nmake test\n" \o Fence : b \in bodies}

\* the text as it reaches the command: as it is, fenced, fenced and padded
Fencings(t) ==
    {t, Fenced("markdown", t), Fenced("", t), "\n" \o Fenced("markdown", t) \o "  \n",
     " " \o Fenced("", t) \o "\n"}

InitFence ==
    /\ op = "strip_fence"
    /\ \E t \in UnfencedTexts : generated \in Fencings(t)
    /\ desc = generated
    /\ commit_messages = <<>>
    /\ changed_files = <<>>
    /\ branch_name = ""
    /\ template = ""
    /\ api_key \in BOOLEAN
    /\ pc = "start"
    /\ title = ""
    /\ status = "running"
    /\ resource_lines = <<>>
    /\ labeled = <<>>
    /\ other = <<>>
    /\ diff = ""
    /\ diff_summary = ""
    /\ cost1 = 0
    /\ title_cost = 0
    /\ desc_cost = 0
    /\ trace = <<>>
    /\ echoed = <<>>
    /\ error = ""
    /\ warnings = <<>>
    /\ add_resources = FALSE

\* the fence stripping of the commands applied to the generated text
StripFence ==
    /\ op = "strip_fence"
    /\ pc = "start"
    /\ desc' = FenceStrip(desc)
    /\ status' = "returned"
    /\ pc' = "done"
    /\ UNCHANGED <<op, commit_messages, changed_files, branch_name, template, api_key, title,
                   resource_lines, labeled, other, pipeline>>

NextFence == StripFence

SpecFence == InitFence /\ [][NextFence]_vars

----------------------------------------------------------------------------
(* generate_pr_title_llm, generate_pr_description_llm and the commands *)

Commands == {"generate", "generate_title", "generate_desc"}

Functions == {"generate_pr_title_llm", "generate_pr_description_llm"}

PipelineCommitLists ==
    { <<>>,
      <<"wip">>,
      <<"feat: add retry logic to uploader">>,
      <<"Bump version to 2.0">>,
      <<LongConventional>>,
      <<"wip", LongPlain>> }

PipelineFilePool == {<<>>, <<"src/cache.py", "tests/test_cache.py", "README.md", "setup.py">>}

PipelineBranchPool == {"", "main", LongBranch}

\* the repositories the commands are run in: a branch with nothing on it, and a
\* branch with one commit that changed files
CommandCommitLists == {<<>>, <<"feat: add retry logic to uploader">>}

CommandFiles(commits) ==
    IF commits = <<>> THEN <<>>
    ELSE <<"src/cache.py", "tests/test_cache.py", "README.md", "setup.py">>

CommandBranchPool == {"main", LongBranch}

\* a generator called with any of the inputs, or a command run in a repository
Init ==
    /\ \/ /\ op \in Functions
          /\ commit_messages \in PipelineCommitLists
          /\ branch_name \in PipelineBranchPool
          /\ template \in DescTemplatePool
          /\ changed_files \in PipelineFilePool
       \/ /\ op \in Commands
          /\ commit_messages \in CommandCommitLists
          /\ branch_name \in CommandBranchPool
          /\ template = ""
          /\ changed_files = CommandFiles(commit_messages)
       \/ /\ op = "run_vibe_checks"
          /\ commit_messages \in PipelineCommitLists
          /\ branch_name = ""
          /\ template = ""
          /\ changed_files \in PipelineFilePool
    /\ api_key \in BOOLEAN
    /\ pc = (IF op \in Commands THEN "cmd_start"
             ELSE IF op = "generate_pr_title_llm" THEN "t_start"
             ELSE IF op = "generate_pr_description_llm" THEN "d_start" ELSE "v_start")
    /\ title = ""
    /\ desc = ""
    /\ status = "running"
    /\ resource_lines = <<>>
    /\ labeled = <<>>
    /\ other = <<>>
    /\ PipelineIdle

inputs == <<op, commit_messages, changed_files, branch_name, template, api_key>>

\* what the commands write after the description is generated
entered == <<resource_lines, labeled, other, generated, add_resources>>

NoChanges == commit_messages = <<>> /\ changed_files = <<>>

\* the echo of the commands when the branch is main or master
Warned == IF branch_name \in {"main", "master"} THEN <<MainBranchWarning>> ELSE <<>>

\* the command prints the no-changes message and returns
CmdNoChanges ==
    /\ pc = "cmd_start"
    /\ NoChanges
    /\ echoed' = Warned \o <<NoChangesMessage>>
    /\ status' = "returned"
    /\ pc' = "done"
    /\ UNCHANGED <<inputs, entered, warnings, title, desc, locals, title_cost, desc_cost, trace, error>>

\* the command raises click.ClickException: OPENAI_API_KEY is not set
CmdNoKey ==
    /\ pc = "cmd_start"
    /\ ~NoChanges
    /\ ~api_key
    /\ echoed' = Warned
    /\ status' = "raised"
    /\ error' = "ClickException"
    /\ pc' = "done"
    /\ UNCHANGED <<inputs, entered, warnings, title, desc, locals, title_cost, desc_cost, trace>>

\* the command goes on to its first generator
CmdProceed ==
    /\ pc = "cmd_start"
    /\ ~NoChanges
    /\ api_key
    /\ echoed' = Warned
    /\ pc' = (IF op = "generate_desc" THEN "d_start" ELSE "t_start")
    /\ UNCHANGED <<inputs, entered, warnings, title, desc, status, locals, title_cost, desc_cost, trace, error>>

\* generate_pr_title_llm ends with the result r of the heuristic or the reply, the
\* calls tr made: a value is returned to the caller, an exception leaves the entry point
FinishTitle(r, cost, tr) ==
    /\ diff' = ""
    /\ diff_summary' = ""
    /\ cost1' = 0
    /\ IF r.kind = "ok"
       THEN /\ title' = r.val
            /\ title_cost' = cost
            /\ trace' = tr \o <<Event("return", "title", "ok", <<0, 0>>, "")>>
            /\ error' = error
            /\ pc' = (IF op = "generate" THEN "d_start" ELSE "done")
            /\ status' = (IF op = "generate" THEN "running" ELSE "returned")
       ELSE /\ title' = title
            /\ title_cost' = title_cost
            /\ trace' = tr
            /\ error' = r.exc
            /\ pc' = "done"
            /\ status' = "raised"

\* the same for generate_pr_description_llm
FinishDesc(r, cost, tr) ==
    /\ diff' = ""
    /\ diff_summary' = ""
    /\ cost1' = 0
    /\ IF r.kind = "ok"
       THEN /\ desc' = r.val
            /\ desc_cost' = cost
            /\ trace' = tr \o <<Event("return", "description", "ok", <<0, 0>>, "")>>
            /\ error' = error
            /\ pc' = (IF op \in Commands THEN "c_resources" ELSE "done")
            /\ status' = (IF op \in Commands THEN "running" ELSE "returned")
       ELSE /\ desc' = desc
            /\ desc_cost' = desc_cost
            /\ trace' = tr
            /\ error' = r.exc
            /\ pc' = "done"
            /\ status' = "raised"

HeuristicTitle == generate_pr_title(commit_messages, changed_files, branch_name, template)

HeuristicDescription ==
    generate_pr_description(commit_messages, changed_files, branch_name, template)

HeuristicTitleEvent == Event("heuristic", "title", "", <<0, 0>>, "")

HeuristicDescriptionEvent == Event("heuristic", "description", "", <<0, 0>>, "")

\* generate_pr_title_llm without a key: the heuristic title, cost 0.0
TitleNoKey ==
    /\ pc = "t_start"
    /\ ~api_key
    /\ FinishTitle(HeuristicTitle, 0, trace \o <<HeuristicTitleEvent>>)
    /\ UNCHANGED <<inputs, entered, warnings, desc, desc_cost, echoed>>

\* the diff retrieval of generate_pr_title_llm without its try/except
TitleGetDiffUnguarded ==
    /\ pc = "t_start"
    /\ api_key
    /\ \E retrieved \in BOOLEAN :
         /\ diff' = (IF retrieved THEN DiffText ELSE diff)
         /\ trace' = trace \o <<Event("get_diff", "", IF retrieved THEN "ok" ELSE "exception",
                                      <<0, 0>>, "")>>
         /\ pc' = (IF retrieved THEN "t_summarize" ELSE "done")
         /\ status' = (IF retrieved THEN status ELSE "raised")
         /\ error' = (IF retrieved THEN error ELSE "GitCommandError")
    /\ UNCHANGED <<inputs, entered, warnings, title, desc, diff_summary, cost1, title_cost,
                   desc_cost, echoed>>

\* diff = git_utils.get_diff(repo_path), the placeholder if it raises
TitleGetDiff ==
    /\ pc = "t_start"
    /\ api_key
    /\ \E retrieved \in BOOLEAN :
         /\ diff' = (IF retrieved THEN DiffText ELSE DiffPlaceholder)
         /\ trace' = trace \o <<Event("get_diff", "", IF retrieved THEN "ok" ELSE "exception",
                                      <<0, 0>>, "")>>
    /\ pc' = "t_summarize"
    /\ UNCHANGED <<inputs, entered, warnings, title, desc, status, diff_summary, cost1, title_cost, desc_cost,
                   echoed, error>>

\* generate_pr_description_llm with nothing changed: the no-changes text, cost 0.0
DescNoChanges ==
    /\ pc = "d_start"
    /\ NoChanges
    /\ FinishDesc(Ok(NoChangesDescription), 0, trace)
    /\ UNCHANGED <<inputs, entered, warnings, title, title_cost, echoed>>

DescGetDiff ==
    /\ pc = "d_start"
    /\ ~NoChanges
    /\ \E retrieved \in BOOLEAN :
         /\ diff' = (IF retrieved THEN DiffText ELSE DiffPlaceholder)
         /\ trace' = trace \o <<Event("get_diff", "", IF retrieved THEN "ok" ELSE "exception",
                                      <<0, 0>>, "")>>
    /\ pc' = "d_summarize"
    /\ UNCHANGED <<inputs, entered, warnings, title, desc, status, diff_summary, cost1, title_cost, desc_cost,
                   echoed, error>>

\* summarize_diff_via_api(diff) without a key: no request
SummarizeNoKey ==
    /\ pc \in {"t_summarize", "d_summarize"}
    /\ ~api_key
    /\ diff_summary' = NoKeySummary
    /\ cost1' = 0
    /\ pc' = (IF pc = "t_summarize" THEN "t_request" ELSE "d_request")
    /\ UNCHANGED <<inputs, entered, warnings, title, desc, status, diff, title_cost, desc_cost, trace, echoed,
                   error>>

\* summarize_diff_via_api(diff) with a key: one request, timeout 8
SummarizeRequest ==
    /\ pc \in {"t_summarize", "d_summarize"}
    /\ api_key
    /\ \E resp \in SummaryResponses :
         /\ diff_summary' = SummaryResult(resp)[1]
         /\ cost1' = SummaryResult(resp)[2]
         /\ trace' = trace \o <<Event("post", "summary", resp.kind, resp.usage, resp.text)>>
    /\ pc' = (IF pc = "t_summarize" THEN "t_request" ELSE "d_request")
    /\ UNCHANGED <<inputs, entered, warnings, title, desc, status, diff, title_cost, desc_cost, echoed, error>>

\* the title request sent again after a failure, up to three times
TitleRequestRetrying ==
    /\ pc = "t_request"
    /\ \E resp \in TitleResponses :
         LET sent == trace \o <<Event("post", "title", resp.kind, resp.usage, resp.text)>>
         IN  IF resp.kind = "ok"
             THEN FinishTitle(Ok(TitleFromReply(resp.text)), cost1 + CallCost(resp.usage), sent)
             ELSE IF Len(sent) < 5
             THEN /\ trace' = sent
                  /\ UNCHANGED <<title, status, locals, title_cost, pc, error>>
             ELSE FinishTitle(HeuristicTitle, cost1, sent \o <<HeuristicTitleEvent>>)
    /\ UNCHANGED <<inputs, entered, warnings, desc, desc_cost, echoed>>

\* the title request of generate_pr_title_llm and what follows it
TitleRequest ==
    /\ pc = "t_request"
    /\ \E resp \in TitleResponses :
         LET sent == trace \o <<Event("post", "title", resp.kind, resp.usage, resp.text)>>
         IN  IF resp.kind = "ok"
             THEN FinishTitle(Ok(TitleFromReply(resp.text)), cost1 + CallCost(resp.usage), sent)
             ELSE FinishTitle(HeuristicTitle, cost1, sent \o <<HeuristicTitleEvent>>)
    /\ UNCHANGED <<inputs, entered, warnings, desc, desc_cost, echoed>>

\* generate_pr_description_llm without a key: the heuristic description, cost1
DescNoKey ==
    /\ pc = "d_request"
    /\ ~api_key
    /\ FinishDesc(HeuristicDescription, cost1, trace \o <<HeuristicDescriptionEvent>>)
    /\ UNCHANGED <<inputs, entered, warnings, title, title_cost, echoed>>

\* What the try block of generate_pr_description_llm returns for a response, as
\* <<description, cost>>: an exception raised inside it, also by the heuristic
\* generator, is caught and returned as an error text with cost1.
DescriptionResult(resp, c1, heuristic) ==
    LET content == strip(resp.text)
        cost2 == CallCost(resp.usage)
    IN  IF resp.kind # "ok" THEN <<ApiErrorText(resp.text), c1>>
        ELSE IF AllSectionsPresent(content) THEN <<content, c1 + cost2>>
        ELSE IF heuristic.kind = "ok" THEN <<heuristic.val, c1 + cost2>>
        ELSE <<ApiErrorText(heuristic.val), c1>>

\* the description request of generate_pr_description_llm and what follows it
DescRequest ==
    /\ pc = "d_request"
    /\ api_key
    /\ \E resp \in DescriptionResponses :
         LET sent == trace \o <<Event("post", "description", resp.kind, resp.usage, resp.text)>>
             fell_back == resp.kind = "ok" /\ ~AllSectionsPresent(strip(resp.text))
             r == DescriptionResult(resp, cost1, HeuristicDescription)
         IN  FinishDesc(Ok(r[1]), r[2],
                        IF fell_back THEN sent \o <<HeuristicDescriptionEvent>> ELSE sent)
    /\ UNCHANGED <<inputs, entered, warnings, title, title_cost, echoed>>

\* generate and generate_desc after the description is generated: the code fence
\* is stripped, the user is asked for related resources, the lines entered are
\* labeled and the section is rewritten.  What follows in the commands (showing,
\* editing, saving and copying the texts, creating the pull request) reads desc and
\* writes outside the state kept here.
CmdResources ==
    /\ pc = "c_resources"
    /\ \E add \in BOOLEAN :
         \E lines \in (IF add THEN EnteredLists ELSE {<<>>}) :
            LET found == label_related_resource_links(lines)
                final == RewriteResources(op, FenceStrip(desc), add, lines)
            IN  /\ add_resources' = add
                /\ resource_lines' = lines
                /\ labeled' = found[1]
                /\ other' = found[2]
                /\ generated' = desc
                /\ desc' = final
    /\ status' = "returned"
    /\ pc' = "done"
    /\ UNCHANGED <<inputs, warnings, title, locals, title_cost, desc_cost, trace, echoed,
                   error>>

\* run_vibe_checks sending its request although there is no key
VibeNoKeyAsksAnyway ==
    /\ pc = "v_start"
    /\ ~api_key
    /\ \E resp \in VibeResponses :
         /\ trace' = trace \o <<Event("post", "vibe", resp.kind, resp.usage, resp.text)>>
         /\ warnings' = VibeResult(resp)
    /\ status' = "returned"
    /\ pc' = "done"
    /\ UNCHANGED <<inputs, entered, title, desc, locals, title_cost, desc_cost, echoed, error>>

\* run_vibe_checks without a key: raise click.ClickException
VibeNoKey ==
    /\ pc = "v_start"
    /\ ~api_key
    /\ status' = "raised"
    /\ error' = "ClickException"
    /\ pc' = "done"
    /\ UNCHANGED <<inputs, entered, warnings, title, desc, locals, title_cost, desc_cost,
                   trace, echoed>>

\* run_vibe_checks with a key: one request, timeout 6, the parsed bullets or the error
VibeRequest ==
    /\ pc = "v_start"
    /\ api_key
    /\ \E resp \in VibeResponses :
         /\ trace' = trace \o <<Event("post", "vibe", resp.kind, resp.usage, resp.text)>>
         /\ warnings' = VibeResult(resp)
    /\ status' = "returned"
    /\ pc' = "done"
    /\ UNCHANGED <<inputs, entered, title, desc, locals, title_cost, desc_cost, echoed, error>>

Next ==
    \/ CmdNoChanges
    \/ CmdNoKey
    \/ CmdProceed
    \/ TitleNoKey
    \/ TitleGetDiff
    \/ DescNoChanges
    \/ DescGetDiff
    \/ SummarizeNoKey
    \/ SummarizeRequest
    \/ TitleRequest
    \/ DescNoKey
    \/ DescRequest
    \/ CmdResources
    \/ VibeNoKey
    \/ VibeRequest

Spec == Init /\ [][Next]_vars

(***************************************************************************)
(* Properties                                                              *)
(***************************************************************************)

TitleDone == op = "generate_pr_title" /\ pc = "done"

\* the commits is_good_commit accepts, by index
Usable == {i \in 1..Len(commit_messages) : is_good_commit(commit_messages[i])}

\* i is the first usable commit of the list
FirstUsable(i) == Usable # {} /\ i = SetMin(Usable)

\* C9: without a template the outcome of generate_pr_title is the one the first
\* usable commit gives, whatever follows it in the list (its title, or the failure
\* of a message no keyword matches); the title comes from the branch name exactly
\* when no commit is usable.
C9_FirstUsableDecides ==
    (TitleDone /\ template = "") =>
        IF Usable = {}
        THEN status = "returned" /\ title = TitleFromBranch(changed_files, branch_name)
        ELSE LET r == TitleFromCommit(commit_messages[SetMin(Usable)])
             IN  IF r.kind = "ok" THEN status = "returned" /\ title = r.val
                 ELSE status = "raised"

\* two unusable commits are skipped and the third gives the title
C9_Witness ==
    /\ TitleDone
    /\ template = ""
    /\ commit_messages = <<"wip", "temp fix", "feat: add retry logic to uploader">>
    /\ title = "feat: add retry logic to uploader"

\* the thirteen types the claim lists
ClaimTypes ==
    {"feat", "fix", "docs", "chore", "refactor", "test", "style", "perf", "ci",
     "build", "revert", "merge", "release"}

\* msg starts with 'type: ' or 'type(scope): '
HasConventionalPrefix(msg) ==
    \E t \in ClaimTypes :
        \/ StartsWith(msg, t \o ": ")
        \/ /\ StartsWith(msg, t \o "(")
           /\ \E j \in (Len(t) + 3)..Len(msg) :
                /\ Char(msg, j) = ")"
                /\ ~Contains(SubSeq(msg, Len(t) + 2, j - 1), ")")
                /\ StartsWithAt(msg, ": ", j + 1)

RequiredHeadings ==
    {"# Summary", "# Related Resources", "# Changes", "# Testing", "# Out of Scope"}

\* C8: with an empty commit list generate_pr_description returns the fixed
\* sentence whatever the changed files, the branch name and the template are, and
\* the sentence holds none of the five headings.
C8_EmptyCommitsSentence ==
    (op = "generate_pr_description" /\ pc = "done" /\ commit_messages = <<>>) =>
        /\ status = "returned"
        /\ desc = "No detailed commit messages found. Consider explaining why this fix matters."
        /\ \A h \in RequiredHeadings : ~Contains(desc, h)

\* the call was made with no commits, five changed files and a template
C8_Witness ==
    /\ op = "generate_pr_description"
    /\ pc = "done"
    /\ commit_messages = <<>>
    /\ Len(changed_files) = 5
    /\ template = "{title}"
    /\ branch_name = "hotfix"
    /\ status = "returned"
    /\ desc = NoCommitsSentence

\* C5: the Jira line of the example is labeled 'Jira Ticket' and the other line is
\* passed through.
C5_JiraExampleLabeled ==
    ( /\ op = "label_related_resource_links"
      /\ pc = "done"
      /\ resource_lines = <<"https://jira.mycompany.atlassian.net/TICKET-1",
                            "https://example.com/notes">> ) =>
        /\ labeled = <<"Jira Ticket: https://jira.mycompany.atlassian.net/TICKET-1">>
        /\ other = <<"https://example.com/notes">>

\* the requests sent so far with the given prompt
Posts(prompt) ==
    {i \in 1..Len(trace) : trace[i].call = "post" /\ trace[i].prompt = prompt}

\* a request with the given prompt was sent and failed
RequestFailed(prompt) == \E i \in Posts(prompt) : trace[i].outcome # "ok"

\* generate_pr_title_llm / generate_pr_description_llm returned a value
Returned(fn) == \E i \in 1..Len(trace) : trace[i].call = "return" /\ trace[i].prompt = fn

FunctionDone(fn) == op = fn /\ pc = "done"

\* C1: after a failed title or description request the function returns the
\* heuristic output for the same inputs (stated for the inputs for which the
\* heuristic generator gives one), never an error text.
C1_FailedRequestFallsBack ==
    /\ (FunctionDone("generate_pr_title_llm") /\ RequestFailed("title")
            /\ HeuristicTitle.kind = "ok") =>
           status = "returned" /\ title = HeuristicTitle.val
    /\ (FunctionDone("generate_pr_description_llm") /\ RequestFailed("description")
            /\ HeuristicDescription.kind = "ok") =>
           status = "returned" /\ desc = HeuristicDescription.val

\* the claim's five headings all occur in the text
AllHeadings(text) == \A h \in RequiredHeadings : Contains(text, h)

\* C2: for a successful description reply the function returns the reply (its
\* surrounding whitespace aside) when the five headings occur in it, and exactly
\* the heuristic description for the same inputs when one is missing.
C2_SectionGate ==
    FunctionDone("generate_pr_description_llm") =>
        \A i \in Posts("description") :
            trace[i].outcome = "ok" =>
                /\ status = "returned"
                /\ IF AllHeadings(trace[i].reply) THEN desc = strip(trace[i].reply)
                   ELSE /\ HeuristicDescription.kind = "ok"
                        /\ desc = HeuristicDescription.val

RECURSIVE SumCosts(_)
\* the costs of the successful requests among the events
SumCosts(events) ==
    IF events = <<>> THEN 0
    ELSE (IF Head(events).call = "post" /\ Head(events).outcome = "ok"
          THEN 15 * Head(events).usage[1] + 20 * Head(events).usage[2] ELSE 0)
         + SumCosts(Tail(events))

\* C3: on every return of generate_pr_description_llm the cost is the sum of the
\* costs of its successful requests (15 and 20 units of 10^-7 USD per prompt and
\* completion token), a failed or skipped request counting 0, and is not negative.
C3_CostAdditive ==
    (FunctionDone("generate_pr_description_llm") /\ status = "returned") =>
        desc_cost = SumCosts(trace) /\ desc_cost >= 0

\* C4 as stated: every title produced without a template has at most 80 characters.
C4_TitleAtMost80 == (Returned("title") /\ template = "") => Len(title) <= 80

\* the title in hand is the heuristic one and its first usable commit has a
\* conventional prefix
PassedThrough ==
    /\ \E i \in 1..Len(trace) : trace[i].call = "heuristic" /\ trace[i].prompt = "title"
    /\ Usable # {}
    /\ HasConventionalPrefix(commit_messages[SetMin(Usable)])

\* C4 amended: a title produced without a template has at most 80 characters when
\* it is synthesized from a commit or from the branch name, is the fixed fallback
\* or comes from the service; a conventional-commit message passed through is
\* returned as its stripped first line, whatever its length.
C4_TitleAtMost80UnlessPassedThrough ==
    (Returned("title") /\ template = "") =>
        IF PassedThrough THEN title = strip(FirstLine(commit_messages[SetMin(Usable)]))
        ELSE Len(title) <= 80

\* the service replied with a longer first line and the title is its first 80 characters
C4_Witness ==
    /\ Returned("title")
    /\ template = ""
    /\ \E i \in Posts("title") :
         /\ trace[i].outcome = "ok"
         /\ Len(FirstLine(strip(trace[i].reply))) > 80
         /\ title = SubSeq(strip(trace[i].reply), 1, 80)

NoRequestSent == \A i \in 1..Len(trace) : trace[i].call # "post"

\* C6: without the credential nothing aborts for its absence and no request is
\* sent; commands and functions deliver the heuristic title and description with
\* cost 0 (stated for the inputs for which the heuristic generator gives one).
C6_NoKeyNotFatal ==
    (op \in Commands \cup Functions /\ pc = "done" /\ ~api_key /\ ~NoChanges) =>
        /\ NoRequestSent
        /\ error # "ClickException"
        /\ (op \in {"generate", "generate_title", "generate_pr_title_llm"}
                /\ HeuristicTitle.kind = "ok") =>
               title = HeuristicTitle.val /\ title_cost = 0
        /\ (op \in {"generate", "generate_desc", "generate_pr_description_llm"}
                /\ HeuristicTitle.kind = "ok" /\ HeuristicDescription.kind = "ok") =>
               status = "returned" /\ desc = HeuristicDescription.val /\ desc_cost = 0

\* C7: with no commits and no changed files nothing is attempted (no diff
\* retrieval, no request, no heuristic generation), the outcome is the no-changes
\* message with cost 0, and nothing is raised.
C7_NoChangesShortCircuit ==
    (op \in Commands \cup Functions /\ pc = "done" /\ NoChanges) =>
        /\ \A i \in 1..Len(trace) : trace[i].call \notin {"get_diff", "post", "heuristic"}
        /\ status = "returned"
        /\ title_cost = 0 /\ desc_cost = 0
        /\ op \in Commands => echoed # <<>> /\ echoed[Len(echoed)] = NoChangesMessage
        /\ op = "generate_pr_description_llm" => desc = NoChangesDescription

\* C11: the five-heading presence test gives the same result for a text, for the
\* text inside a markdown fence and inside a bare fence, and for what the fence
\* stripping of the commands makes of any of them.
C11_FenceKeepsVerdict ==
    op = "strip_fence" =>
        \A t \in UnfencedTexts :
            generated \in Fencings(t) =>
                /\ AllSectionsPresent(generated) = AllSectionsPresent(t)
                /\ pc = "done" => AllSectionsPresent(desc) = AllSectionsPresent(t)

\* a fenced text with the five headings was stripped of its fence and is accepted
C11_Witness ==
    /\ op = "strip_fence"
    /\ pc = "done"
    /\ \E t \in UnfencedTexts :
         /\ generated = Fenced("markdown", t)
         /\ AllSectionsPresent(t)
         /\ desc = strip(t)
         /\ desc # generated

\* the entries of items at the positions in S, in order
At(items, S) ==
    LET kept[i \in 0..Len(items)] ==
            IF i = 0 THEN <<>>
            ELSE IF i \in S THEN kept[i - 1] \o <<items[i]>> ELSE kept[i - 1]
    IN  kept[Len(items)]

LabelDone == op = "label_related_resource_links" /\ pc = "done"

LabelNames == {"Jira Ticket", "Documentation", "GitHub Issue", "Linear Ticket"}

\* the input lines split into those at the positions L, which make up `labeled` in
\* input order as '<Label>: ' followed by Shown(line), and the others, which make
\* up `other` in input order with their surrounding whitespace removed
SplitAs(L, Shown(_)) ==
    LET ls == At(resource_lines, L)
        os == At(resource_lines, (1..Len(resource_lines)) \ L)
    IN  /\ Len(labeled) = Len(ls)
        /\ \A k \in 1..Len(ls) : \E l \in LabelNames : labeled[k] = l \o ": " \o Shown(ls[k])
        /\ Len(other) = Len(os)
        /\ \A k \in 1..Len(os) : other[k] = strip(os[k])

Itself(line) == line

\* C12 as stated: every input line is in exactly one output, as '<Label>: <line>'
\* in labeled or, surrounding whitespace aside, in other; the lengths add up and
\* each output keeps the input order.
C12_NoLineDropped ==
    LabelDone =>
        /\ Len(labeled) + Len(other) = Len(resource_lines)
        /\ \E L \in SUBSET (1..Len(resource_lines)) : SplitAs(L, Itself)

\* C12 amended: the same, a labeled line being '<Label>: ' followed by the line
\* with its surrounding whitespace removed.
C12_NoLineDroppedStripped ==
    LabelDone =>
        /\ Len(labeled) + Len(other) = Len(resource_lines)
        /\ \E L \in SUBSET (1..Len(resource_lines)) : SplitAs(L, strip)

\* two lines went in, one came out labeled and the other one unlabeled
C12_Witness ==
    /\ LabelDone
    /\ Len(resource_lines) = 2
    /\ Len(labeled) = 1
    /\ Len(other) = 1

OperationStart ==
    LET returns == {i \in 1..Len(trace) : trace[i].call = "return" /\ trace[i].prompt = "title"}
    IN  IF returns = {} THEN 0 ELSE SetMax(returns)

\* the requests of the running logical operation with the given prompt
PostsOfOperation(prompt) == {i \in Posts(prompt) : i > OperationStart}

Prompts == {"summary", "title", "description", "vibe"}

\* C14: within one logical operation each prompt is sent at most once, a failed
\* request included, and at most two requests are sent in all.
C14_NoRetry ==
    /\ \A prompt \in Prompts : Cardinality(PostsOfOperation(prompt)) <= 1
    /\ Cardinality(UNION {PostsOfOperation(prompt) : prompt \in Prompts}) <= 2

\* a title generation has ended after a failed title request: two requests were
\* sent, the failed one was the last
C14_Witness ==
    /\ op = "generate_pr_title_llm"
    /\ pc = "done"
    /\ RequestFailed("title")
    /\ Cardinality(Posts("summary")) = 1
    /\ Cardinality(Posts("title")) = 1

\* the diff retrieval of the running generator was its last call and failed
DiffJustFailed ==
    /\ trace # <<>>
    /\ trace[Len(trace)].call = "get_diff"
    /\ trace[Len(trace)].outcome = "exception"

\* a diff retrieval failed at some point of the run
DiffFailed ==
    \E i \in 1..Len(trace) : trace[i].call = "get_diff" /\ trace[i].outcome = "exception"

\* the exception that left the entry point is the one the heuristic generator
\* raises for these inputs
HeuristicRaised ==
    \/ HeuristicTitle.kind = "raise" /\ error = HeuristicTitle.exc
    \/ HeuristicDescription.kind = "raise" /\ error = HeuristicDescription.exc

\* C15: when the diff cannot be retrieved the generator goes on with the
\* placeholder, nothing is raised for it, the summary step can be taken next, and
\* the run ends with its title or description result (or with the failure of the
\* heuristic generator for these inputs, which does not depend on the diff).
C15_DiffFailureRecovered ==
    /\ DiffJustFailed =>
           /\ diff = DiffPlaceholder
           /\ status = "running"
           /\ error = ""
           /\ pc \in {"t_summarize", "d_summarize", "d_request"}
           /\ pc # "d_request" => ENABLED (SummarizeNoKey \/ SummarizeRequest)
           /\ pc = "d_request" => ~api_key /\ diff_summary = NoKeySummary
    /\ (DiffFailed /\ pc = "done") => (status = "returned" \/ HeuristicRaised)

\* the diff could not be retrieved and a description was returned all the same
C15_Witness ==
    /\ DiffFailed
    /\ pc = "done"
    /\ status = "returned"
    /\ Returned("description")
    /\ AllSectionsPresent(desc)

BadPatterns ==
    {"wip", "temp", "pls work", "final", "test", "update code", "bug fix", "fix bug", "pr for"}

\* usable as C16 has it: decided by the first line alone
UsableByFirstLine(msg) ==
    LET line == FirstLine(msg)
    IN  /\ Len(line) >= 8
        /\ \A bad \in BadPatterns : ~Contains(lower(line), bad)

\* C16: the commits that count as usable in generate_pr_title are those whose
\* first line has 8 characters or more and holds no bad pattern, whatever their
\* body: the first of them decides the title, and the branch does when there is none.
C16_FirstLineDecidesUsable ==
    (TitleDone /\ template = "") =>
        LET usable == {i \in 1..Len(commit_messages) : UsableByFirstLine(commit_messages[i])}
        IN  IF usable = {}
            THEN status = "returned" /\ title = TitleFromBranch(changed_files, branch_name)
            ELSE LET r == TitleFromCommit(commit_messages[SetMin(usable)])
                 IN  IF r.kind = "ok" THEN status = "returned" /\ title = r.val
                     ELSE status = "raised"

\* the prefix of the first keyword rule that matches, in the order of C17
RulePrefix(msg) ==
    LET low == lower(msg)
        Has(word) == Contains(low, word)
    IN  CASE Has("fix") -> "fix: "
          [] ~Has("fix") /\ (Has("add") \/ Has("implement") \/ Has("feature")) -> "feat: "
          [] ~Has("fix") /\ ~(Has("add") \/ Has("implement") \/ Has("feature")) /\ Has("doc")
               -> "docs: "
          [] ~Has("fix") /\ ~(Has("add") \/ Has("implement") \/ Has("feature")) /\ ~Has("doc")
               /\ Has("refactor") -> "refactor: "
          [] ~Has("fix") /\ ~(Has("add") \/ Has("implement") \/ Has("feature")) /\ ~Has("doc")
               /\ ~Has("refactor") /\ Has("test") -> "test: "
          [] OTHER -> ""

\* a one-line message of 8 characters or more without a conventional prefix that
\* holds no bad pattern, the keyword 'test' of the fifth rule aside
RuleCandidate(msg) ==
    /\ Len(msg) >= 8
    /\ ~Contains(msg, "\n")
    /\ \A bad \in BadPatterns \ {"test"} : ~Contains(lower(msg), bad)
    /\ ~HasConventionalPrefix(msg)

\* C17: a single commit the keyword rules apply to gets the prefix of the first
\* rule that matches it, each of the five rules being selected for the messages
\* only it matches ('test' -> 'test: ' included); when no rule matches no title is
\* returned.
C17_KeywordRuleSelected ==
    (TitleDone /\ template = "" /\ Len(commit_messages) = 1
        /\ RuleCandidate(commit_messages[1])) =>
        LET msg == commit_messages[1]
        IN  IF RulePrefix(msg) = "" THEN status = "raised"
            ELSE /\ status = "returned"
                 /\ title = Truncate(RulePrefix(msg) \o strip(msg) \o RefStr(msg), 80)

\* the branch name with every hyphen replaced by a space
Spaced(branch) ==
    LET out[i \in 0..Len(branch)] ==
            IF i = 0 THEN ""
            ELSE out[i - 1] \o (IF Char(branch, i) = "-" THEN " " ELSE Char(branch, i))
    IN  out[Len(branch)]

\* the prefix the leading token of the branch name gives
LeadingPrefix(branch) ==
    LET lead == {t \in {"feat", "fix", "docs", "refactor"} : StartsWith(branch, t)}
    IN  IF lead = {} THEN "chore: " ELSE (CHOOSE t \in lead : TRUE) \o ": "

\* C18: with no usable commit and no template the title is the prefix of the
\* branch's leading token, the branch name with spaces for hyphens, the first
\* changed file in brackets if there is one, the references of the branch name,
\* cut to 80 characters; 'chore: update code' when the branch name is empty.
C18_BranchFallback ==
    (TitleDone /\ template = "" /\ Usable = {}) =>
        /\ status = "returned"
        /\ branch_name = "" => title = "chore: update code"
        /\ branch_name # "" =>
              title = Truncate(LeadingPrefix(branch_name) \o Spaced(branch_name)
                                   \o (IF changed_files = <<>> THEN ""
                                       ELSE " [" \o changed_files[1] \o "]")
                                   \o RefStr(branch_name), 80)

\* the only commit is unusable and the title is built from the branch, the first
\* changed file and the reference in the branch name
C18_Witness ==
    /\ TitleDone
    /\ template = ""
    /\ commit_messages = <<"wip">>
    /\ title = "feat: feat retry PROJ 7 [src/uploader.py] (PROJ-7)"

HeadingOrder ==
    <<"# Summary", "# Related Resources", "# Changes", "# Testing", "# Out of Scope">>

\* where the k-th heading line begins in the text, 0 if it does not occur
HeadingAt(text, k) ==
    IF k = 1 THEN (IF StartsWith(text, HeadingOrder[1] \o "\n") THEN 1 ELSE 0)
    ELSE LET at == Find(text, "\n\n" \o HeadingOrder[k] \o "\n", 1)
         IN  IF at = 0 THEN 0 ELSE at + 2

\* the text between the k-th heading line and the next heading (or the end)
SectionBody(text, k) ==
    LET from == HeadingAt(text, k) + Len(HeadingOrder[k]) + 1
        to == IF k = Len(HeadingOrder) THEN Len(text) ELSE HeadingAt(text, k + 1) - 3
    IN  SubSeq(text, from, to)

DefaultDescriptionDone ==
    /\ op = "generate_pr_description"
    /\ pc = "done"
    /\ commit_messages # <<>>
    /\ template = ""

\* C19: for a non-empty commit list and no template the text holds the five
\* headings in their order, the first commit message as the Summary body, one
\* bullet per commit message in commit order at the head of Changes, the first 3
\* file names at most and then 'and N more files', at most 2 test-file names under
\* Testing, and it passes the five-heading presence test.
C19_FiveSections ==
    DefaultDescriptionDone =>
        LET n == Len(changed_files)
            changes == SectionBody(desc, 3)
            testing == SectionBody(desc, 4)
            tests == {i \in 1..n : Contains(changed_files[i], "test")}
            named == {i \in tests : Contains(testing, changed_files[i])}
        IN  /\ status = "returned"
            /\ \A k \in 1..5 : HeadingAt(desc, k) > 0
            /\ \A k \in 1..4 : HeadingAt(desc, k) < HeadingAt(desc, k + 1)
            /\ SectionBody(desc, 1) = commit_messages[1]
            /\ StartsWith(changes,
                          Join([i \in 1..Len(commit_messages) |-> "- " \o commit_messages[i]],
                               "\n") \o "\n")
            /\ \A i \in 1..n : Contains(changes, changed_files[i]) <=> i <= 3
            /\ IF n > 3 THEN Contains(changes, ", and " \o ToString(n - 3) \o " more files")
               ELSE ~Contains(changes, "more files")
            /\ Cardinality(named) = Min(2, Cardinality(tests))
            /\ \A i \in named : \A j \in tests : j < i => j \in named
            /\ AllSectionsPresent(desc)

\* two commits and five changed files, three of them test files: two files are
\* counted as 'more files' and two test files are named
C19_Witness ==
    /\ DefaultDescriptionDone
    /\ Len(commit_messages) = 2
    /\ Len(changed_files) = 5
    /\ Contains(SectionBody(desc, 3), ", and 2 more files")
    /\ Contains(SectionBody(desc, 4), "tests/test_cache.py, web/cache.test.js...")

\* a command has generated its description and rewritten it
CommandRewrote ==
    /\ op \in {"generate", "generate_desc"}
    /\ pc = "done"
    /\ status = "returned"
    /\ generated # ""

\* the text between the first Related Resources heading line and the next heading
\* (or the end of the text)
RelatedBody(text) ==
    LET from == Find(text, "# Related Resources", 1) + Len(RelatedHeading)
        next == Find(text, "\n# ", from - 1)
    IN  SubSeq(text, from, IF next = 0 THEN Len(text) ELSE next - 1)

\* C20: after a command has generated a description that holds a Related Resources
\* section, if the user entered resource lines the section keeps its heading and its
\* body is exactly those lines, one '- ' bullet each, the labeled lines first; if
\* the user declined to add resources the description holds no Related Resources
\* heading any more.
C20_ResourcesReplacedOrRemoved ==
    (CommandRewrote /\ Contains(FenceStrip(generated), "# Related Resources")) =>
        /\ (add_resources /\ resource_lines # <<>>) =>
               /\ Contains(desc, "# Related Resources")
               /\ strip(RelatedBody(desc)) = Bullets(labeled \o other)
               /\ Len(labeled) + Len(other) = Len(resource_lines)
        /\ ~add_resources => ~Contains(desc, "# Related Resources")

RECURSIVE SectionsOf(_)
\* the text cut before every line that begins with '# ': what precedes the first
\* such line, then one piece for each heading line with the lines below it
SectionsOf(text) ==
    LET next == Find(text, "\n# ", 1)
    IN  IF next = 0 THEN <<text>>
        ELSE <<SubSeq(text, 1, next - 1)>> \o SectionsOf(Drop(text, next + 1))

\* the pieces of the text other than the Related Resources sections, each without
\* the blank lines around it, in the order of the text
OtherSections(text) ==
    LET all == SectionsOf(text)
        kept == SelectSeq(all, LAMBDA piece : ~StartsWith(piece, "# Related Resources"))
    IN  [i \in 1..Len(kept) |-> strip(kept[i])]

\* C21: when the generated description holds the five headings, the rewrite of the
\* Related Resources section by generate and generate_desc leaves the other sections
\* as they were: the same headings with the same bodies in the same order.
C21_OtherSectionsUntouched ==
    (CommandRewrote /\ AllSectionsPresent(FenceStrip(generated))) =>
        /\ OtherSections(desc) = OtherSections(FenceStrip(generated))
        /\ \A k \in {1, 3, 4, 5} : Contains(desc, required_sections[k] \o "\n")

\* C22: when a command has rewritten a generated description with the lines the
\* user entered, every entered line occurs in the final description, and the final
\* description is the one either command produces from the same generated text,
\* the same answer and the same lines.
C22_EnteredLinesKept ==
    CommandRewrote =>
        /\ add_resources =>
               \A i \in 1..Len(resource_lines) : Contains(desc, resource_lines[i])
        /\ \A cmd \in {"generate", "generate_desc"} :
               desc = RewriteResources(cmd, FenceStrip(generated), add_resources,
                                       resource_lines)

====
